---------------------------- MODULE Spec2Model ----------------------------
(***************************************************************************)
(* Model of teamsToRAG's incremental export: the paginated fetch           *)
(* (src/src/teamsClient.js fetchChatMessages / fetchChannelMessages), the  *)
(* export reader and writer (generateRAGDocument, parseExistingExport,     *)
(* appendMessagesToExport) and the `generate` command that drives them     *)
(* (src/unnamed/part_000).                                                 *)
(*                                                                         *)
(* Instants are integers (milliseconds scaled down).  A document is the    *)
(* sequence of its lines, each line a token: blank lines are left out.     *)
(* Free text that the program only copies (topic, sender, message body)    *)
(* is opaque and holds no header-field marker.                             *)
(***************************************************************************)
EXTENDS Integers, Sequences, FiniteSets

(* ------------------------------ bounds -------------------------------- *)
\* the last instant of the clock
MaxTime == 2
\* how many messages the remote conversation ever holds
MaxMsgs == 3
\* the page size of the remote listing ($top=50 in the code, scaled down)
PageSize == 2
\* the largest --max-messages value tried (0 stands for "not given")
MaxCap == 2
\* how many times the generate command is started
MaxRuns == 2
\* instants per calendar day
DayLen == 1

(* ----------------------------- JS values ------------------------------ *)
\* a Date that is null / an Invalid Date (NaN time value)
NullDate == -2
InvalidDate == -1
\* `if (d)`: null is falsy, every Date object (an Invalid Date too) is truthy
Truthy(d) == d # NullDate

\* toISOString giving the same text for every instant
toISOString_Epoch(d) == [fmt |-> "iso", ms |-> 0]

\* Date.prototype.toISOString of a valid date; the text of an instant
toISOString(d) == [fmt |-> "iso", ms |-> d]
\* text that is no date at all
GarbageText == [fmt |-> "text", ms |-> 0]
\* new Date(string): the instant of an ISO string, Invalid Date otherwise
DateParse(str) == IF str.fmt = "iso" THEN str.ms ELSE InvalidDate
\* toLocaleDateString / toLocaleTimeString of an instant
toLocaleDateString(t) == (t - 1) \div DayLen
toLocaleTimeString(t) == (t - 1) % DayLen

(* --------------------------- sequence helpers -------------------------- *)
Reverse(s) == [i \in 1..Len(s) |-> s[Len(s) + 1 - i]]

RECURSIVE Flatten(_)
Flatten(ss) == IF ss = <<>> THEN <<>> ELSE Head(ss) \o Flatten(Tail(ss))

\* Array.prototype.slice(-n) for n >= 1
SliceLast(s, n) == IF Len(s) <= n THEN s ELSE SubSeq(s, Len(s) - n + 1, Len(s))

\* index of the first line of s of kind t (the first match of a regex), 0 if none
FirstIndex(s, t) ==
    IF \E i \in 1..Len(s) : s[i].t = t
    THEN CHOOSE i \in 1..Len(s) : s[i].t = t /\ \A j \in 1..(i - 1) : s[j].t # t
    ELSE 0

(* ------------------------------ documents ------------------------------ *)
\* one line of a document
Tok(t, s, n, id) == [t |-> t, s |-> s, n |-> n, id |-> id]
Sep == Tok("sep", "", 0, 0)
IsTotal(l) == l.t = "total"
IsLastRun(l) == l.t = "lastRun"
IsMsg(l) == l.t = "msg"

\* the file system entry of the output path when nothing is there
NoFile == <<Tok("nofile", "", 0, 0)>>
Exists(fs) == fs # NoFile

\* what fetchChatMetadata returned: {} after a failed lookup, and always {} for
\* a channel, whose lookup result is never stored in `metadata`
MetaEmpty == [topic |-> FALSE, chatType |-> FALSE, createdDateTime |-> NullDate]
MetaFull == [topic |-> TRUE, chatType |-> TRUE, createdDateTime |-> 1]

\* generateHeader(metadata, messageCount, options), run at instant d
generateHeader(metadata, messageCount, channel, d) ==
    <<Tok("title", "", 0, 0)>>
    \o (IF metadata.topic THEN <<Tok("topic", "", 0, 0)>> ELSE <<>>)
    \o (IF metadata.chatType THEN <<Tok("chatType", "", 0, 0)>> ELSE <<>>)
    \o <<Tok("source", IF channel THEN "channel" ELSE "chat", 0, 0)>>
    \o <<Tok("total", "int", messageCount, 0)>>
    \o (IF Truthy(metadata.createdDateTime)
        THEN <<Tok("created", "local", metadata.createdDateTime, 0)>> ELSE <<>>)
    \o <<Tok("lastRun", toISOString(d).fmt, toISOString(d).ms, 0),
         Tok("lastRunLocal", "local", d, 0)>>

\* formatMessage(msg, memberMap, includeMetadata): the sender line carries the
\* time of day when includeMetadata is set; the body is the message's own text
formatMessage(msg, includeMetadata) ==
    IF includeMetadata
    THEN Tok("msg", "time", toLocaleTimeString(msg.createdDateTime), msg.id)
    ELSE Tok("msg", "", 0, msg.id)

\* the keys ordered as strings, as Object.keys(grouped).sort() would: the day
\* k reads "1/<9 + k>/2024", and "1/10/2024" sorts before "1/9/2024"
RECURSIVE SortDates_ByString(_, _)
SortDates_ByString(keys, dateObjects) ==
    IF keys = {} THEN <<>>
    ELSE LET digits(k) == IF 9 + k < 10 THEN <<9 + k>>
                          ELSE <<(9 + k) \div 10, (9 + k) % 10>>
             before(a, b) ==
                \/ a = b
                \/ \E i \in 1..Len(digits(a)) :
                      /\ i <= Len(digits(b))
                      /\ \A j \in 1..(i - 1) : digits(a)[j] = digits(b)[j]
                      /\ digits(a)[i] < digits(b)[i]
                \/ /\ Len(digits(a)) < Len(digits(b))
                   /\ \A j \in 1..Len(digits(a)) : digits(a)[j] = digits(b)[j]
             k == CHOOSE a \in keys : \A b \in keys : before(a, b)
         IN <<k>> \o SortDates_ByString(keys \ {k}, dateObjects)

\* the keys of `grouped` ordered by dateObjects[key], smallest first
RECURSIVE SortDates(_, _)
SortDates(keys, dateObjects) ==
    IF keys = {} THEN <<>>
    ELSE LET k == CHOOSE a \in keys : \A b \in keys : dateObjects[a] <= dateObjects[b]
         IN <<k>> \o SortDates(keys \ {k}, dateObjects)

\* generateGroupedByDate(messages, memberMap, includeMetadata)
generateGroupedByDate(msgs, includeMetadata) ==
    LET dateStr(i) == toLocaleDateString(msgs[i].createdDateTime)
        keys == {dateStr(i) : i \in 1..Len(msgs)}
        \* dateObjects[dateStr] is the date of the first message of the group
        dateObjects == [k \in keys |->
            msgs[CHOOSE i \in 1..Len(msgs) :
                    dateStr(i) = k /\ \A j \in 1..(i - 1) : dateStr(j) # k].createdDateTime]
        sortedDates == SortDates(keys, dateObjects)
        InGroup(k) == SelectSeq(msgs, LAMBDA m : toLocaleDateString(m.createdDateTime) = k)
        section(k) == <<Tok("date", "local", k, 0)>>
                      \o [i \in 1..Len(InGroup(k)) |->
                            formatMessage(InGroup(k)[i], includeMetadata)]
    IN Flatten([i \in 1..Len(sortedDates) |-> section(sortedDates[i])])

\* generateSequential(messages, memberMap, includeMetadata)
generateSequential(msgs, includeMetadata) ==
    <<Tok("heading", "chat", 0, 0)>>
    \o [i \in 1..Len(msgs) |-> formatMessage(msgs[i], includeMetadata)]

\* generateRAGDocument with the header counting one message more than it is given
generateRAGDocument_OffByOne(msgs, metadata, includeMetadata, groupByDate, channel, d) ==
    (IF includeMetadata
     THEN generateHeader(metadata, Len(msgs) + 1, channel, d) \o <<Sep>>
     ELSE <<>>)
    \o (IF groupByDate THEN generateGroupedByDate(msgs, includeMetadata)
        ELSE generateSequential(msgs, includeMetadata))

\* generateRAGDocument(messages, metadata, members, options), run at instant d
generateRAGDocument(msgs, metadata, includeMetadata, groupByDate, channel, d) ==
    (IF includeMetadata
     THEN generateHeader(metadata, Len(msgs), channel, d) \o <<Sep>>
     ELSE <<>>)
    \o (IF groupByDate THEN generateGroupedByDate(msgs, includeMetadata)
        ELSE generateSequential(msgs, includeMetadata))

\* saveRAGDocument(content, outputPath): the path then holds content
saveRAGDocument(content) == content

\* the lines parseExistingExport's loop visits: up to and with the first "---"
HeaderLines(content) ==
    LET k == FirstIndex(content, "sep")
    IN IF k = 0 THEN content ELSE SubSeq(content, 1, k)

\* parseExistingExport(outputPath): null (ok = FALSE) when the path holds no
\* file, else the fields of the header; of several matching lines the last wins
parseExistingExport(fs) ==
    IF ~Exists(fs)
    THEN [ok |-> FALSE, lastRun |-> NullDate, totalMessages |-> 0]
    ELSE LET hdr == HeaderLines(fs)
             runs_ == SelectSeq(hdr, IsLastRun)
             tots == SelectSeq(hdr, IsTotal)
         IN [ok |-> TRUE,
             lastRun |-> IF runs_ = <<>> THEN NullDate
                         ELSE DateParse([fmt |-> runs_[Len(runs_)].s,
                                         ms |-> runs_[Len(runs_)].n]),
             totalMessages |-> IF tots = <<>> THEN 0 ELSE tots[Len(tots)].n]

\* String.prototype.replace(regex, text): the first line matching is rewritten
ReplaceFirst(content, t, line) ==
    LET k == FirstIndex(content, t)
    IN IF k = 0 THEN content ELSE [content EXCEPT ![k] = line]

\* `oldCount + newMessages.length`, as an omission would have it
newCount_ForgetsOld(oldCount, n) == n

\* `const newCount = oldCount + newMessages.length`
newCount(oldCount, n) == oldCount + n

\* the new content put between the header and the old body
appendNewContent_BeforeBody(updatedContent, newContent) ==
    LET k == FirstIndex(updatedContent, "sep")
    IN SubSeq(updatedContent, 1, k) \o newContent
       \o SubSeq(updatedContent, k + 1, Len(updatedContent))

\* `updatedContent += '\n' + newContent`
appendNewContent(updatedContent, newContent) == updatedContent \o newContent

\* an append that writes a fresh header, without the conversation's metadata,
\* above the old body and the new messages
patchAndAppend_FreshHeader(existingContent, newMessages, includeMetadata, groupByDate, d) ==
    LET k == FirstIndex(existingContent, "sep")
        t == FirstIndex(existingContent, "total")
        count == IF t = 0 THEN 0 ELSE existingContent[t].n
    IN generateHeader(MetaEmpty, newCount(count, Len(newMessages)), FALSE, d)
       \o SubSeq(existingContent, IF k = 0 THEN 1 ELSE k, Len(existingContent))
       \o (IF groupByDate THEN generateGroupedByDate(newMessages, includeMetadata)
           ELSE generateSequential(newMessages, includeMetadata))

\* The body of appendMessagesToExport after its guard: the header patched and
\* the new messages formatted and appended, at instant d
patchAndAppend(existingContent, newMessages, includeMetadata, groupByDate, d) ==
    LET k == FirstIndex(existingContent, "total")
        withCount ==
            IF k # 0
            THEN ReplaceFirst(existingContent, "total",
                    Tok("total", "int",
                        newCount(existingContent[k].n, Len(newMessages)), 0))
            ELSE existingContent
        withRun == ReplaceFirst(withCount, "lastRun",
                        Tok("lastRun", toISOString(d).fmt, toISOString(d).ms, 0))
        withLocal == ReplaceFirst(withRun, "lastRunLocal",
                        Tok("lastRunLocal", "local", d, 0))
        newContent == IF groupByDate
                      THEN generateGroupedByDate(newMessages, includeMetadata)
                      ELSE generateSequential(newMessages, includeMetadata)
    IN appendNewContent(withLocal, newContent)

\* appendMessagesToExport without its `newMessages.length === 0` guard
appendMessagesToExport_NoGuard(fs, newMessages, includeMetadata, groupByDate, d) ==
    IF ~Exists(fs)
    THEN [fs |-> fs, ret |-> 0, wrote |-> FALSE, threw |-> TRUE]
    ELSE [fs |-> patchAndAppend(fs, newMessages, includeMetadata, groupByDate, d),
          ret |-> Len(newMessages), wrote |-> TRUE, threw |-> FALSE]

\* appendMessagesToExport(outputPath, newMessages, memberMap, includeMetadata,
\* groupByDate), run at instant d on a path holding fs.  wrote: writeFileSync
\* ran; threw: readFileSync found no file
appendMessagesToExport(fs, newMessages, includeMetadata, groupByDate, d) ==
    IF Len(newMessages) = 0
    THEN [fs |-> fs, ret |-> 0, wrote |-> FALSE, threw |-> FALSE]
    ELSE IF ~Exists(fs)
    THEN [fs |-> fs, ret |-> 0, wrote |-> FALSE, threw |-> TRUE]
    ELSE [fs |-> patchAndAppend(fs, newMessages, includeMetadata, groupByDate, d),
          ret |-> Len(newMessages), wrote |-> TRUE, threw |-> FALSE]

(* -------------------------------- state --------------------------------- *)
VARIABLES
    now,        \* the clock
    remote,     \* the conversation on the remote, oldest message first
    filterMode, \* what the remote does with $filter=createdDateTime gt ...
    config,     \* INCLUDE_METADATA and GROUP_BY_DATE of the environment (.env)
    file,       \* the content of the output path
    pc,         \* "idle" | "awaitPage" | "exit"
    opts,       \* the options and locals of the current or last run
    pagesLog,   \* the batches received by the current or last fetch, in order
    pageCount,  \* the page requests issued by the current or last fetch
    inflight,   \* the response on its way to the client
    messages,   \* what the last fetch returned
    outcome,    \* how the last run ended, and its exit code
    fileBefore, \* the content of the output path when the run started
    runs,       \* runs started so far
    groupIn,    \* the messages handed to generateGroupedByDate on its own
    groupOut,   \* what it returned for them
    splitIn,    \* the content and maxChunkSize handed to splitIntoChunks
    splitOut,   \* the chunks it returned
    parseIn,    \* the response text handed to parseClaudeResponse on its own
    parseOut,   \* what it returned, or that it threw
    optPc,      \* optimizeForRAG: "idle" | "awaitChunk" | "awaitSummary" |
                \* "returned" | "chunkFailed" | "renderFailed"
    optOptions, \* the options of the optimizeForRAG call
    claudeInflight,  \* the chunk requests sent to the service and not yet answered
    serviceLog,      \* every request sent to the service and every answer, in order
    processedChunks, \* the parsed extraction of every chunk answered so far
    outputFiles,     \* the artifacts saved so far, in the order saved
    pathSource, \* the conversation whose output path is resolved, and its name
    disk,       \* the output paths that hold an export
    pathRuns    \* the output path each run resolved, and whether it found an export

\* the state of the generate command
exportVars == <<now, remote, filterMode, config, file, pc, opts, pagesLog,
                pageCount, inflight, messages, outcome, fileBefore, runs>>

\* the state of the optimizer (ragOptimizer.js)
optVars == <<splitIn, splitOut, parseIn, parseOut, optPc, optOptions,
            claudeInflight, serviceLog, processedChunks, outputFiles>>

\* the state of the functions exercised apart from the generate command
\* the state of the output directory over several runs
pathVars == <<pathSource, disk, pathRuns>>

otherVars == <<groupIn, groupOut, optVars, pathVars>>

vars == <<now, remote, filterMode, config, file, pc, opts, pagesLog,
          pageCount, inflight, messages, outcome, fileBefore, runs, otherVars>>

(* ------------------------------- remote -------------------------------- *)
\* the url of no further request (nextLink absent)
NoUrl == 0
NoResponse == [kind |-> "none", value |-> <<>>, nextLink |-> NoUrl, status |-> 0]

\* The listing a request walks, newest first: every message older than the
\* continuation point skip, less those a remote that applies the
\* $filter=createdDateTime gt <since> of the url holds back.
Listing(skip, since) ==
    LET older == SelectSeq(remote, LAMBDA m : m.id < skip)
        kept == IF Truthy(since) /\ filterMode = "applies"
                THEN SelectSeq(older, LAMBDA m : m.createdDateTime > since)
                ELSE older
    IN Reverse(kept)

\* The remote's answers to GET url: a page of at most PageSize messages and the
\* link to the rest, or a failure.  A remote that rejects $filter fails every
\* url that carries one (status 400).
Responses(skip, since) ==
    IF Truthy(since) /\ filterMode = "rejects"
    THEN {[kind |-> "error", value |-> <<>>, nextLink |-> NoUrl, status |-> 400]}
    ELSE LET l == Listing(skip, since)
             n == IF Len(l) < PageSize THEN Len(l) ELSE PageSize
         IN {[kind |-> "page", value |-> SubSeq(l, 1, n),
              nextLink |-> IF Len(l) > n THEN l[n].id ELSE NoUrl, status |-> 200],
             [kind |-> "error", value |-> <<>>, nextLink |-> NoUrl, status |-> 0]}

\* the statuses of a failure: 0 is no response at all (error.response unset)
ErrorStatuses(resp) == IF resp.status = 400 THEN {400} ELSE {0, 403, 404, 500}

(* -------------------------------- fetch -------------------------------- *)
\* the loop's break with > for >=
reachedMax_Strict(maxMessages, fetchedCount) ==
    maxMessages # 0 /\ fetchedCount > maxMessages

\* `maxMessages && fetchedCount >= maxMessages`: the loop's break
reachedMax(maxMessages, fetchedCount) ==
    maxMessages # 0 /\ fetchedCount >= maxMessages

\* the return without messages.reverse()
fetchReturn_NoReverse(accumulated, maxMessages) ==
    IF maxMessages # 0 /\ Len(accumulated) > maxMessages
    THEN SliceLast(accumulated, maxMessages)
    ELSE accumulated

\* What fetchChatMessages / fetchChannelMessages return after the loop:
\* the accumulated messages reversed, and trimmed to maxMessages
fetchReturn(accumulated, maxMessages) ==
    LET reversed == Reverse(accumulated)
    IN IF maxMessages # 0 /\ Len(reversed) > maxMessages
       THEN SliceLast(reversed, maxMessages)
       ELSE reversed

\* the catch block answering every failure with the same message
fetchError_OneMessage(status) == "failed to fetch"

\* the loop asking for the listing from its start again after every page
nextUrl_FromStart(response) ==
    IF response.nextLink = NoUrl THEN NoUrl ELSE Len(remote) + 1

\* `url = response.data['@odata.nextLink'] || null`
nextUrl(response) == response.nextLink

\* The catch block: the Error thrown for a failed request
fetchError(status) ==
    CASE status = 404 -> "not found"
      [] status = 403 -> "permission denied"
      [] status = 0 -> "failed to fetch"
      [] OTHER -> "graph api error"

(* ----------------------------- the command ----------------------------- *)
Outcome(what, code, ret) == [what |-> what, exit |-> code, appended |-> ret]

\* the detection taking every existing file for an export to append to
detectIncremental_AnyFile(fs) ==
    [isIncremental |-> Exists(fs), sinceDate |-> parseExistingExport(fs).lastRun]

\* Steps 4 (detection) of the generate action: isIncremental and sinceDate
detectIncremental(fs) ==
    LET existingExport == parseExistingExport(fs)
        inc == Exists(fs) /\ existingExport.ok /\ Truthy(existingExport.lastRun)
    IN [isIncremental |-> inc,
        sinceDate |-> IF inc THEN existingExport.lastRun ELSE NullDate]

\* the generate action without its `messages.length === 0 && !isIncremental` exit
afterFetch_WritesEmpty(fs, msgs, o, d) ==
    IF Len(msgs) = 0 /\ o.isIncremental
    THEN [fs |-> fs, outcome |-> Outcome("up to date", 0, 0)]
    ELSE IF o.isIncremental
    THEN LET r == appendMessagesToExport(fs, msgs, o.includeMetadata, o.groupByDate, d)
         IN IF r.threw
            THEN [fs |-> fs, outcome |-> Outcome("append failed", 1, 0)]
            ELSE [fs |-> r.fs, outcome |-> Outcome("appended", 0, r.ret)]
    ELSE [fs |-> saveRAGDocument(
                    generateRAGDocument(msgs, o.metadata, o.includeMetadata,
                                        o.groupByDate, o.isChannel, d)),
          outcome |-> Outcome("created", 0, 0)]

\* Everything of the generate action after the fetch returned msgs, at instant
\* d on a path holding fs: the file it leaves and the run's outcome
afterFetch(fs, msgs, o, d) ==
    IF Len(msgs) = 0 /\ ~o.isIncremental
    THEN [fs |-> fs, outcome |-> Outcome("no messages", 0, 0)]
    ELSE IF Len(msgs) = 0 /\ o.isIncremental
    THEN [fs |-> fs, outcome |-> Outcome("up to date", 0, 0)]
    ELSE IF o.isIncremental
    THEN LET r == appendMessagesToExport(fs, msgs, o.includeMetadata, o.groupByDate, d)
         IN IF r.threw
            THEN [fs |-> fs, outcome |-> Outcome("append failed", 1, 0)]
            ELSE [fs |-> r.fs, outcome |-> Outcome("appended", 0, r.ret)]
    ELSE [fs |-> saveRAGDocument(
                    generateRAGDocument(msgs, o.metadata, o.includeMetadata,
                                        o.groupByDate, o.isChannel, d)),
          outcome |-> Outcome("created", 0, 0)]

\* no conversation named yet, nothing in the output directory
NoSource == [isChannel |-> FALSE, chatId |-> <<>>, teamId |-> <<>>,
             channelId |-> <<>>, name |-> <<>>]
PathIdle ==
    /\ pathSource = NoSource
    /\ disk = {}
    /\ pathRuns = <<>>

\* the result of a function that has not been called
NotCalled == [done |-> FALSE, parts |-> <<>>]

\* the defaults of optimizeForRAG's options
DefaultOptions ==
    [outputFormat |-> "structured", includeTopics |-> TRUE, includeDecisions |-> TRUE,
     includeActionItems |-> TRUE, includeSummary |-> TRUE]

\* the optimizer before it is started
OptimizerIdle ==
    /\ splitIn = [content |-> <<>>, maxChunkSize |-> 1]
    /\ splitOut = NotCalled
    /\ parseIn = <<>>
    /\ parseOut = [done |-> FALSE]
    /\ optPc = "idle"
    /\ optOptions = DefaultOptions
    /\ claudeInflight = {}
    /\ serviceLog = <<>>
    /\ processedChunks = <<>>
    /\ outputFiles = <<>>

NoOpts == [isChannel |-> FALSE, maxMessages |-> 0, includeMetadata |-> TRUE, groupByDate |-> TRUE,
           metadata |-> MetaEmpty, isIncremental |-> FALSE, sinceDate |-> NullDate]

Init ==
    /\ now = 1
    /\ remote = <<>>
    /\ filterMode \in {"applies", "ignores", "rejects"}
    /\ config \in [includeMetadata : BOOLEAN, groupByDate : BOOLEAN]
    /\ file = NoFile
    /\ pc = "idle"
    /\ opts = NoOpts
    /\ pagesLog = <<>>
    /\ pageCount = 0
    /\ inflight = NoResponse
    /\ messages = <<>>
    /\ outcome = Outcome("none", 0, 0)
    /\ fileBefore = NoFile
    /\ runs = 0
    /\ PathIdle
    /\ groupIn = <<>>
    /\ groupOut = NotCalled
    /\ OptimizerIdle

\* time passes
Tick ==
    /\ pc # "exit"
    /\ pc = "idle" => runs < MaxRuns
    /\ now < MaxTime
    /\ now' = now + 1
    /\ UNCHANGED <<remote, filterMode, config, file, pc, opts, pagesLog,
                   pageCount, inflight, messages, outcome, fileBefore, runs>>
    /\ UNCHANGED otherVars

\* somebody posts a message in the conversation
PostMessage ==
    /\ pc # "exit"
    /\ pc = "idle" => runs < MaxRuns
    /\ Len(remote) < MaxMsgs
    /\ remote' = Append(remote, [id |-> Len(remote) + 1, createdDateTime |-> now])
    /\ UNCHANGED <<now, filterMode, config, file, pc, opts, pagesLog,
                   pageCount, inflight, messages, outcome, fileBefore, runs>>
    /\ UNCHANGED otherVars

\* somebody edits the export by hand and leaves a Last Run line that is no date
EditLastRun ==
    /\ pc = "idle"
    /\ Exists(file)
    /\ \E k \in 1..Len(HeaderLines(file)) :
          /\ IsLastRun(file[k])
          /\ file[k].s = "iso"
          /\ file' = [file EXCEPT ![k] = Tok("lastRun", GarbageText.fmt, GarbageText.ms, 0)]
    /\ UNCHANGED <<now, remote, filterMode, config, pc, opts, pagesLog,
                   pageCount, inflight, messages, outcome, fileBefore, runs>>
    /\ UNCHANGED otherVars

\* `generate` up to the first page request of fetchChatMessages /
\* fetchChannelMessages (one loop, written twice in the code);
\* sinceDate.toISOString() throws on an Invalid Date.  What the command reads
\* here and uses only after the fetch (includeMetadata, groupByDate, the kind
\* of source and its metadata, which go into the header) is drawn where used.
StartRunWith(cap) ==
    /\ pc = "idle"
    /\ runs < MaxRuns
    /\ runs' = runs + 1
    /\ LET det == detectIncremental(file)
       IN /\ opts' = [NoOpts EXCEPT !.maxMessages = cap,
                                    !.isIncremental = det.isIncremental,
                                    !.sinceDate = det.sinceDate]
          /\ fileBefore' = file
          /\ pagesLog' = <<>>
          /\ messages' = <<>>
          /\ IF Truthy(det.sinceDate) /\ det.sinceDate = InvalidDate
             THEN /\ pc' = "exit"
                  /\ pageCount' = 0
                  /\ inflight' = NoResponse
                  /\ outcome' = Outcome("failed to fetch", 1, 0)
             ELSE /\ pc' = "awaitPage"
                  /\ pageCount' = 1
                  /\ inflight' \in Responses(Len(remote) + 1, det.sinceDate)
                  /\ outcome' = Outcome("running", 0, 0)
    /\ UNCHANGED <<now, remote, filterMode, config, file>>
    /\ UNCHANGED otherVars

\* `generate` is started with any --max-messages, or without
StartRun == \E cap \in 0..MaxCap : StartRunWith(cap)

\* the request failed: the catch block rethrows, the command exits with 1
ReceiveError ==
    /\ pc = "awaitPage"
    /\ inflight.kind = "error"
    /\ pc' = "exit"
    /\ inflight' = NoResponse
    /\ \E status \in ErrorStatuses(inflight) :
          outcome' = Outcome(fetchError(status), 1, 0)
    /\ UNCHANGED <<now, remote, filterMode, config, file, opts, pagesLog,
                   pageCount, messages, fileBefore, runs>>
    /\ UNCHANGED otherVars

\* a page arrived and the loop goes on: the next page is requested
ReceivePageAndContinue ==
    /\ pc = "awaitPage"
    /\ inflight.kind = "page"
    /\ LET batch == inflight.value
           fetchedCount == Len(Flatten(pagesLog)) + Len(batch)
       IN /\ ~reachedMax(opts.maxMessages, fetchedCount)
          /\ nextUrl(inflight) # NoUrl
          /\ pagesLog' = Append(pagesLog, batch)
          /\ pageCount' = pageCount + 1
          /\ inflight' \in Responses(nextUrl(inflight), opts.sinceDate)
    /\ UNCHANGED <<now, remote, filterMode, config, file, pc, opts,
                   messages, outcome, fileBefore, runs>>
    /\ UNCHANGED otherVars

\* the last page arrived: the fetch returns and the command runs to its end
ReceivePageAndFinish ==
    /\ pc = "awaitPage"
    /\ inflight.kind = "page"
    /\ \E ch \in BOOLEAN, md \in {MetaEmpty, MetaFull} :
          LET im == config.includeMetadata
              gd == config.groupByDate
              batch == inflight.value
              fetchedCount == Len(Flatten(pagesLog)) + Len(batch)
              result == fetchReturn(Flatten(pagesLog) \o batch, opts.maxMessages)
              o == [opts EXCEPT !.includeMetadata = im, !.groupByDate = gd,
                                !.isChannel = ch, !.metadata = md]
              end == afterFetch(file, result, o, now)
          IN \* an input the run never reads is left at its default
             /\ ch => md = MetaEmpty
             /\ (result = <<>> \/ opts.isIncremental \/ ~im) => ~ch /\ md = MetaEmpty
             /\ reachedMax(opts.maxMessages, fetchedCount) \/ nextUrl(inflight) = NoUrl
             /\ pagesLog' = Append(pagesLog, batch)
             /\ messages' = result
             /\ opts' = o
             /\ file' = end.fs
             /\ outcome' = end.outcome
    /\ pc' = "exit"
    /\ inflight' = NoResponse
    /\ UNCHANGED <<now, remote, filterMode, config, pageCount,
                   fileBefore, runs>>
    /\ UNCHANGED otherVars

\* process.exit: the command's locals are gone, the file stays
Exit ==
    /\ pc = "exit"
    /\ pc' = "idle"
    /\ opts' = NoOpts
    /\ pagesLog' = <<>>
    /\ pageCount' = 0
    /\ messages' = <<>>
    /\ outcome' = Outcome("none", 0, 0)
    /\ fileBefore' = NoFile
    /\ UNCHANGED <<now, remote, filterMode, config, file, inflight, runs>>
    /\ UNCHANGED otherVars

Next ==
    \/ Tick
    \/ PostMessage
    \/ EditLastRun
    \/ StartRun
    \/ ReceiveError
    \/ ReceivePageAndContinue
    \/ ReceivePageAndFinish
    \/ Exit

Spec == Init /\ [][Next]_vars


(* ------------------------- reading a run's result ----------------------- *)
\* the fetch of the run that is exiting returned (it did not throw)
FetchReturned ==
    pc = "exit" /\ outcome.what \in {"no messages", "up to date", "appended",
                                    "created", "append failed"}
\* the messages the fetch accumulated, in the order received
Accumulated == Flatten(pagesLog)
\* the header of a document holds a Total Messages line, and its value
HasTotal(doc) == Exists(doc) /\ FirstIndex(HeaderLines(doc), "total") # 0
TotalOf(doc) == doc[FirstIndex(HeaderLines(doc), "total")].n
\* the header of a document holds a Last Run line, and its text
HasLastRun(doc) == Exists(doc) /\ FirstIndex(HeaderLines(doc), "lastRun") # 0
LastRunOf(doc) == LET l == doc[FirstIndex(HeaderLines(doc), "lastRun")]
                  IN [fmt |-> l.s, ms |-> l.n]
\* the body of a document: the lines after the header's separator
BodyOf(doc) ==
    LET k == FirstIndex(doc, "sep")
    IN IF k = 0 THEN doc ELSE SubSeq(doc, k + 1, Len(doc))
\* the message entries of a sequence of lines
Entries(ls) == SelectSeq(ls, IsMsg)
IsPrefix(a, b) == Len(a) <= Len(b) /\ SubSeq(b, 1, Len(a)) = a
Chronological(ms) ==
    \A i, j \in 1..Len(ms) : i < j => ms[i].createdDateTime <= ms[j].createdDateTime

(* -------------------------------- claims -------------------------------- *)
\* C1: appendMessagesToExport with an empty newMessages list writes nothing and
\* returns 0, whatever the file holds; and an incremental run that finds no new
\* message leaves the export, its Last Run and its Total Messages as they were.
C1_EmptyAppendIsNoOp ==
    /\ LET r == appendMessagesToExport(file, <<>>, config.includeMetadata,
                                       config.groupByDate, now)
       IN r.fs = file /\ r.ret = 0 /\ ~r.wrote /\ ~r.threw
    /\ (pc = "exit" /\ outcome.what = "up to date") => file = fileBefore

\* C1 witness: an incremental run at a later instant than the stored Last Run
\* found nothing new and is exiting
C1_Witness ==
    /\ pc = "exit" /\ outcome.what = "up to date"
    /\ HasLastRun(file) /\ LastRunOf(file).fmt = "iso" /\ LastRunOf(file).ms < now

\* C2: a successful append of N >= 1 messages to a file whose header holds
\* Total Messages = T leaves Total Messages = T + N and returns N.
C2_AppendAddsToTotal ==
    (pc = "exit" /\ outcome.what = "appended" /\ HasTotal(fileBefore)) =>
        /\ Len(messages) >= 1
        /\ HasTotal(file)
        /\ TotalOf(file) = TotalOf(fileBefore) + Len(messages)
        /\ outcome.appended = Len(messages)

\* C2 witness: two messages were appended to an export that held one
C2_Witness ==
    /\ filterMode = "applies"
    /\ pc = "exit" /\ outcome.what = "appended"
    /\ HasTotal(fileBefore) /\ TotalOf(fileBefore) = 1
    /\ Len(messages) = 2

\* C3: in every export written by a first run and any appends after it, the
\* header's Total Messages is the number of message entries in the body.
C3_TotalCountsEntries ==
    HasTotal(file) => TotalOf(file) = Len(Entries(BodyOf(file)))

\* C3 witness: an append has brought an export to three entries
C3_Witness ==
    /\ filterMode = "applies"
    /\ pc = "exit" /\ outcome.what = "appended"
    /\ HasTotal(file) /\ TotalOf(file) = 3

\* C4: with a cutoff, a non-empty page k whose messages are all at or before
\* the cutoff ends the pagination: page k+1 is not requested, and no message of
\* page k or of a later page is returned.
C4_StopsAtOldPage ==
    \A k \in 1..Len(pagesLog) :
        (/\ Truthy(opts.sinceDate)
         /\ pagesLog[k] # <<>>
         /\ \A i \in 1..Len(pagesLog[k]) :
               pagesLog[k][i].createdDateTime <= opts.sinceDate)
        => /\ pageCount <= k
           /\ \A j \in k..Len(pagesLog) : \A i \in 1..Len(pagesLog[j]) :
                 \A h \in 1..Len(messages) : messages[h] # pagesLog[j][i]

\* C5: with a cutoff, every message the fetch returns was created strictly
\* after the cutoff, whatever the remote does with the time filter.
C5_ReturnedAfterCutoff ==
    (FetchReturned /\ Truthy(opts.sinceDate)) =>
        \A h \in 1..Len(messages) : messages[h].createdDateTime > opts.sinceDate

\* C6: what the fetch returns is in chronological order, oldest message first,
\* with or without cutoff and cap.
C6_ReturnedChronological ==
    FetchReturned => Chronological(messages)

\* C6 witness: a fetch over two pages returned messages of different instants
C6_Witness ==
    /\ FetchReturned
    /\ Len(pagesLog) = 2
    /\ Len(messages) = 3
    /\ messages[1].createdDateTime < messages[3].createdDateTime

\* C7: with a cap, no page is requested once the accumulated count has reached
\* the cap; at most cap messages are returned; and of more than cap accumulated
\* messages the cap most recent are returned, oldest first.
C7_CapStopsAndKeepsNewest ==
    /\ (pc = "awaitPage" /\ opts.maxMessages # 0) => Len(Accumulated) < opts.maxMessages
    /\ (FetchReturned /\ opts.maxMessages # 0) =>
          /\ Len(messages) <= opts.maxMessages
          /\ Chronological(messages)
          /\ Len(Accumulated) > opts.maxMessages =>
                LET got == {messages[h].id : h \in 1..Len(messages)}
                    all == {Accumulated[i].id : i \in 1..Len(Accumulated)}
                IN /\ Len(messages) = opts.maxMessages
                   /\ Cardinality(got) = opts.maxMessages
                   /\ got \subseteq all
                   /\ \A a \in got : \A b \in all \ got : a > b

\* C7 witness: with cap 1 the first page brought two messages of different
\* instants, a further page was left unrequested, and the newer one was returned
C7_Witness ==
    /\ FetchReturned
    /\ opts.maxMessages = 1
    /\ Len(Accumulated) = 2
    /\ Len(remote) = 3
    /\ pageCount = 1
    /\ Len(messages) = 1
    /\ Accumulated[1].createdDateTime > Accumulated[2].createdDateTime
    /\ messages[1] = Accumulated[1]

\* the Last Run line of a header is there and is no instant
UnparseableLastRun(doc) ==
    HasLastRun(doc) /\ DateParse(LastRunOf(doc)) = InvalidDate

\* C8: a run on an export whose Last Run is present but unparseable treats it
\* as absent: it is not incremental, fetches with no cutoff, and does not fail
\* over the field.
C8_UnparseableLastRunIsAbsent ==
    (pc # "idle" /\ UnparseableLastRun(fileBefore)) =>
        /\ ~opts.isIncremental
        /\ opts.sinceDate = NullDate
        /\ outcome.what # "failed to fetch"

\* C9 as claimed: a first run that finds no message on the remote creates a
\* document with Total Messages 0 and ends with the non-error "no messages".
C9_EmptyFirstRunWritesDocument ==
    (FetchReturned /\ ~Exists(fileBefore) /\ messages = <<>>) =>
        /\ HasTotal(file) /\ TotalOf(file) = 0
        /\ outcome.what = "no messages" /\ outcome.exit = 0

\* C9 as amended: a first run that finds no message on the remote writes no
\* document (the output path stays empty) and ends with the non-error
\* "no messages" outcome, exit status 0.
C9_EmptyFirstRunWritesNothing ==
    (FetchReturned /\ ~Exists(fileBefore) /\ messages = <<>>) =>
        /\ ~Exists(file)
        /\ outcome.what = "no messages" /\ outcome.exit = 0

\* C9 witness: a first run on an empty conversation is exiting
C9_Witness ==
    /\ FetchReturned /\ ~Exists(fileBefore) /\ ~opts.isIncremental
    /\ remote = <<>> /\ messages = <<>>

\* C10: a successful append leaves the body it found as a prefix of the new
\* body, and every newly formatted message comes after that prefix.
C10_AppendKeepsBody ==
    (pc = "exit" /\ outcome.what = "appended") =>
        LET old == BodyOf(fileBefore)
            new == BodyOf(file)
        IN /\ IsPrefix(old, new)
           /\ LET added == Entries(SubSeq(new, Len(old) + 1, Len(new)))
              IN /\ Len(added) = Len(messages)
                 /\ \A h \in 1..Len(messages) :
                       \E i \in 1..Len(added) : added[i].id = messages[h].id

\* C10 witness: an append added a message to a body that held two
C10_Witness ==
    /\ filterMode = "applies"
    /\ pc = "exit" /\ outcome.what = "appended"
    /\ Len(Entries(BodyOf(fileBefore))) = 2
    /\ Len(Entries(BodyOf(file))) = 3
    /\ Len(messages) = 1

\* a document whose header holds a Last Run that reads as an instant
HasInstantLastRun(doc) == HasLastRun(doc) /\ LastRunOf(doc).fmt = "iso"

\* C11: every successful append of N >= 1 messages sets the header's Last Run
\* to the current instant, and no step of the program takes a Last Run that
\* reads as an instant to an earlier one.
C11_LastRunMonotonic ==
    /\ []((pc = "exit" /\ outcome.what = "appended" /\ HasLastRun(fileBefore)) =>
            /\ Len(messages) >= 1
            /\ HasInstantLastRun(file)
            /\ DateParse(LastRunOf(file)) = now)
    /\ [][(HasInstantLastRun(file) /\ HasInstantLastRun(file')) =>
            DateParse(LastRunOf(file')) >= DateParse(LastRunOf(file))]_vars

\* C11 witness: an append moved Last Run from an earlier instant to now
C11_Witness ==
    /\ pc = "exit" /\ outcome.what = "appended"
    /\ HasInstantLastRun(fileBefore) /\ HasInstantLastRun(file)
    /\ DateParse(LastRunOf(fileBefore)) < DateParse(LastRunOf(file))
    /\ DateParse(LastRunOf(file)) = now

\* the date sections of a body, top to bottom: the day each heading names
SectionDays(body) ==
    LET heads == SelectSeq(body, LAMBDA l : l.t = "date")
    IN [i \in 1..Len(heads) |-> heads[i].n]

\* the creation instants of the entries of a body, top to bottom
EntryInstants(body) ==
    LET es == Entries(body)
    IN [i \in 1..Len(es) |-> remote[es[i].id].createdDateTime]

NonDecreasing(ns) == \A i, j \in 1..Len(ns) : i < j => ns[i] <= ns[j]

\* C12: in every export written by a first run and any appends after it, the
\* date sections are in chronological order from top to bottom and the message
\* entries are in chronological order of createdDateTime.
C12_DocumentChronological ==
    Exists(file) =>
        /\ NonDecreasing(SectionDays(BodyOf(file)))
        /\ NonDecreasing(EntryInstants(BodyOf(file)))

(* ------------------- generateGroupedByDate on its own ------------------- *)
\* the latest createdDateTime of a message handed to the function directly
MaxStamp == 4

\* the message lists handed to it: any order of instants, ids by position
GroupInputs ==
    UNION {{[i \in 1..n |-> [id |-> i, createdDateTime |-> f[i]]] :
                f \in [1..n -> 1..MaxStamp]} : n \in 0..MaxMsgs}

InitGroup ==
    /\ now = 1
    /\ remote = <<>>
    /\ filterMode = "applies"
    /\ config \in [includeMetadata : BOOLEAN, groupByDate : {TRUE}]
    /\ file = NoFile
    /\ pc = "idle"
    /\ opts = NoOpts
    /\ pagesLog = <<>>
    /\ pageCount = 0
    /\ inflight = NoResponse
    /\ messages = <<>>
    /\ outcome = Outcome("none", 0, 0)
    /\ fileBefore = NoFile
    /\ runs = 0
    /\ PathIdle
    /\ groupIn \in GroupInputs
    /\ groupOut = NotCalled
    /\ OptimizerIdle

\* generateGroupedByDate(groupIn, memberMap, includeMetadata) is called
GroupByDate ==
    /\ ~groupOut.done
    /\ groupOut' = [done |-> TRUE,
                    parts |-> generateGroupedByDate(groupIn, config.includeMetadata)]
    /\ UNCHANGED <<now, remote, filterMode, config, file, pc, opts, pagesLog,
                   pageCount, inflight, messages, outcome, fileBefore, runs, groupIn>>
    /\ UNCHANGED <<optVars, pathVars>>

SpecGroup == InitGroup /\ [][GroupByDate]_vars

\* the sections of a grouped body, top to bottom: the day of each heading and
\* the ids of the entries under it
SectionsOf(parts) ==
    LET h == SelectSeq([i \in 1..Len(parts) |-> i], LAMBDA i : parts[i].t = "date")
        last(j) == IF j < Len(h) THEN h[j + 1] - 1 ELSE Len(parts)
        under(j) == Entries(SubSeq(parts, h[j] + 1, last(j)))
    IN [j \in 1..Len(h) |->
            [day |-> parts[h[j]].n,
             ids |-> [i \in 1..Len(under(j)) |-> under(j)[i].id]]]

\* the messages of a list that fall on day k, in the order of the list
OnDay(msgs, k) == SelectSeq(msgs, LAMBDA m : toLocaleDateString(m.createdDateTime) = k)

\* C13: generateGroupedByDate gives one section to each calendar day of its
\* input, puts the sections in the order of the timestamp of the first message
\* that established each day (whatever the order of the date strings), and
\* keeps the messages of a section in their input order.
C13_SectionsByFirstMessage ==
    groupOut.done =>
        LET secs == SectionsOf(groupOut.parts)
            days == {toLocaleDateString(groupIn[i].createdDateTime) : i \in 1..Len(groupIn)}
        IN /\ {secs[j].day : j \in 1..Len(secs)} = days
           /\ Len(secs) = Cardinality(days)
           /\ Len(Entries(groupOut.parts)) = Len(groupIn)
           /\ \A i, j \in 1..Len(secs) :
                 i < j => OnDay(groupIn, secs[i].day)[1].createdDateTime
                            < OnDay(groupIn, secs[j].day)[1].createdDateTime
           /\ \A j \in 1..Len(secs) :
                 secs[j].ids = [i \in 1..Len(OnDay(groupIn, secs[j].day)) |->
                                    OnDay(groupIn, secs[j].day)[i].id]

\* C13 witness: three messages out of order over two days, the earlier day's
\* string sorting after the later day's, two of them on the same day
C13_Witness ==
    /\ groupOut.done
    /\ Len(groupIn) = 3
    /\ groupIn[1].createdDateTime = 2
    /\ groupIn[2].createdDateTime = 1
    /\ groupIn[3].createdDateTime = 2
    /\ Len(SectionsOf(groupOut.parts)) = 2

(* ------------------------ splitIntoChunks on its own -------------------- *)
\* the longest document text handed to splitIntoChunks directly, and the
\* largest maxChunkSize (a date marker line or one other line counts 1)
MaxDocLen == 5
MaxChunkSize == 3

\* A text is the sequence of its lines; m: the line matches dateSectionRegex
\* (/^## \d+\/\d+\/\d+$/gm); pos: where in the text the line stands
DocTexts ==
    UNION {{[i \in 1..n |-> [m |-> f[i], pos |-> i]] : f \in [1..n -> BOOLEAN]} :
                n \in 0..MaxDocLen}

\* `matches`: the index of every marker, in order
matches(content) ==
    SelectSeq([i \in 1..Len(content) |-> i], LAMBDA i : content[i].m)

\* sections that keep only their marker line
sections_MarkerOnly(content) ==
    LET ms == matches(content)
    IN [i \in 1..Len(ms) |-> SubSeq(content, ms[i], ms[i])]

\* `sections`: from each marker up to the next marker or the end of the text
sections(content) ==
    LET ms == matches(content)
    IN [i \in 1..Len(ms) |->
            SubSeq(content, ms[i],
                   IF i < Len(ms) THEN ms[i + 1] - 1 ELSE Len(content))]

\* the test of the combining loop with its condition never true
overflows_Never(currentChunk, section, maxChunkSize) == FALSE

\* `currentChunk.length + section.length > maxChunkSize && currentChunk.length > 0`
overflows(currentChunk, section, maxChunkSize) ==
    Len(currentChunk) + Len(section) > maxChunkSize /\ Len(currentChunk) > 0

\* the combining loop over the sections left, and the final push
RECURSIVE combine(_, _, _, _)
combine(rest, chunks, currentChunk, maxChunkSize) ==
    IF rest = <<>>
    THEN IF Len(currentChunk) > 0 THEN Append(chunks, currentChunk) ELSE chunks
    ELSE IF overflows(currentChunk, Head(rest), maxChunkSize)
    THEN combine(Tail(rest), Append(chunks, currentChunk), Head(rest), maxChunkSize)
    ELSE combine(Tail(rest), chunks, currentChunk \o Head(rest), maxChunkSize)

\* a splitter cutting the text of the sections every maxChunkSize lines
splitIntoChunks_HardCut(content, maxChunkSize) ==
    LET ms == matches(content)
        body == IF ms = <<>> THEN <<>> ELSE SubSeq(content, ms[1], Len(content))
        n == (Len(body) + maxChunkSize - 1) \div maxChunkSize
        upto(j) == IF j * maxChunkSize < Len(body) THEN j * maxChunkSize ELSE Len(body)
    IN IF body = <<>> THEN <<content>>
       ELSE [j \in 1..n |-> SubSeq(body, (j - 1) * maxChunkSize + 1, upto(j))]

\* splitIntoChunks(content, maxChunkSize)
splitIntoChunks(content, maxChunkSize) ==
    LET chunks == combine(sections(content), <<>>, <<>>, maxChunkSize)
    IN IF Len(chunks) > 0 THEN chunks ELSE <<content>>

\* the generate command at rest
ExportIdle ==
    /\ now = 1
    /\ remote = <<>>
    /\ filterMode = "applies"
    /\ config = [includeMetadata |-> TRUE, groupByDate |-> TRUE]
    /\ file = NoFile
    /\ pc = "idle"
    /\ opts = NoOpts
    /\ pagesLog = <<>>
    /\ pageCount = 0
    /\ inflight = NoResponse
    /\ messages = <<>>
    /\ outcome = Outcome("none", 0, 0)
    /\ fileBefore = NoFile
    /\ runs = 0
    /\ PathIdle

InitChunk ==
    /\ ExportIdle
    /\ groupIn = <<>>
    /\ groupOut = NotCalled
    /\ splitIn \in [content : DocTexts, maxChunkSize : 1..MaxChunkSize]
    /\ splitOut = NotCalled
    /\ parseIn = <<>>
    /\ parseOut = [done |-> FALSE]
    /\ optPc = "idle"
    /\ optOptions = DefaultOptions
    /\ claudeInflight = {}
    /\ serviceLog = <<>>
    /\ processedChunks = <<>>
    /\ outputFiles = <<>>

\* splitIntoChunks(content, maxChunkSize) is called
SplitIntoChunks ==
    /\ ~splitOut.done
    /\ splitOut' = [done |-> TRUE,
                    parts |-> splitIntoChunks(splitIn.content, splitIn.maxChunkSize)]
    /\ UNCHANGED <<exportVars, pathVars, groupIn, groupOut, splitIn, parseIn, parseOut, optPc,
                   optOptions, claudeInflight, serviceLog, processedChunks, outputFiles>>

SpecChunk == InitChunk /\ [][SplitIntoChunks]_vars

\* the chunks of the output that hold a line of the section
Holders(chunks, section) ==
    {j \in 1..Len(chunks) :
        \E a \in 1..Len(chunks[j]), b \in 1..Len(section) : chunks[j][a] = section[b]}

\* the section stands whole, its lines together and in order, in the chunk
Within(section, chunk) ==
    \E o \in 0..(Len(chunk) - Len(section)) :
        SubSeq(chunk, o + 1, o + Len(section)) = section

\* C14: for every text and every maxChunkSize, each date section (from its
\* marker up to the next marker or the end of the text) lies whole inside
\* exactly one chunk of splitIntoChunks's output.
C14_SectionsNeverDivided ==
    splitOut.done =>
        LET secs == sections(splitIn.content)
        IN \A i \in 1..Len(secs) :
              /\ Cardinality(Holders(splitOut.parts, secs[i])) = 1
              /\ \A j \in Holders(splitOut.parts, secs[i]) :
                    Within(secs[i], splitOut.parts[j])

\* C14 witness: a text with a preamble and three sections, one of them of two
\* lines, was split into more than one chunk, one chunk holding two sections
C14_Witness ==
    /\ splitOut.done
    /\ Len(splitIn.content) = 5
    /\ ~splitIn.content[1].m
    /\ Len(sections(splitIn.content)) = 3
    /\ \E i \in 1..3 : Len(sections(splitIn.content)[i]) = 2
    /\ Len(splitOut.parts) = 2
    /\ \E j \in 1..2 : Len(matches(splitOut.parts[j])) = 2

\* C15: every chunk made from a text with date markers is at most
\* maxChunkSize long, unless it is exactly one section that is itself longer;
\* and every such section comes out whole as a chunk of its own.
C15_ChunkSizeBound ==
    (splitOut.done /\ matches(splitIn.content) # <<>>) =>
        LET secs == sections(splitIn.content)
            chunks == splitOut.parts
        IN /\ \A j \in 1..Len(chunks) :
                 \/ Len(chunks[j]) <= splitIn.maxChunkSize
                 \/ \E i \in 1..Len(secs) :
                       chunks[j] = secs[i] /\ Len(secs[i]) > splitIn.maxChunkSize
           /\ \A i \in 1..Len(secs) :
                 Len(secs[i]) > splitIn.maxChunkSize =>
                    \E j \in 1..Len(chunks) : chunks[j] = secs[i]

\* C15 witness: a section of three lines met maxChunkSize 2 and came out as a
\* chunk of three lines, next to a chunk within the size
C15_Witness ==
    /\ splitOut.done
    /\ splitIn.maxChunkSize = 2
    /\ \E i \in 1..Len(sections(splitIn.content)) :
          /\ Len(sections(splitIn.content)[i]) = 3
          /\ \E j \in 1..Len(splitOut.parts) :
                splitOut.parts[j] = sections(splitIn.content)[i]
    /\ \E j \in 1..Len(splitOut.parts) : Len(splitOut.parts[j]) <= 2

(* ------------------------- the service's answers ------------------------ *)
\* one entry of a collection of an extraction: its collection, the chunk it
\* was extracted from, and whether it has its `type` field
Item(kind, src, typed) == [kind |-> kind, src |-> src, typed |-> typed]

\* the JSON object {} : every collection missing
EmptyExtraction ==
    [topics |-> <<>>, decisions |-> <<>>, actionItems |-> <<>>,
     contextSummaries |-> <<>>, technicalDetails |-> <<>>, participants |-> <<>>]

\* an extraction of chunk i of the shape the prompt asks for: a topic and a
\* participant every chunk reports (0) and ones of its own (i), a decision
\* reported twice
FullExtraction(i) ==
    [topics |-> <<0, i>>,
     decisions |-> <<Item("decision", i, TRUE), Item("decision", i, TRUE)>>,
     actionItems |-> <<Item("action", i, TRUE)>>,
     contextSummaries |-> <<Item("context", i, TRUE)>>,
     technicalDetails |-> <<Item("technical", i, TRUE)>>,
     participants |-> <<0, i>>]

\* an extraction not of that shape: a technical detail without its `type`
UntypedExtraction(i) ==
    [EmptyExtraction EXCEPT !.technicalDetails = <<Item("technical", i, FALSE)>>]

\* the shape the program's rendering relies on
ExpectedShape(v) ==
    \A i \in 1..Len(v.technicalDetails) : v.technicalDetails[i].typed

\* A response text is a sequence of pieces: "fenceJson" is ```json, "fence" is
\* ```, "lbrace" and "rbrace" are the braces of the JSON object, "value" is
\* what stands between them, "prose" is any other text
Tk(k) == [k |-> k, v |-> EmptyExtraction]
ValueTk(v) == [k |-> "value", v |-> v]
IsFence(t) == t.k \in {"fence", "fenceJson"}

\* JSON.stringify of an extraction; inner: its strings hold a ``` pair
stringify(v, inner) ==
    <<Tk("lbrace"), ValueTk(v)>>
    \o (IF inner THEN <<Tk("fence"), Tk("fence")>> ELSE <<>>)
    \o <<Tk("rbrace")>>

\* JSON.parse(jsonString): the object between the braces, or a SyntaxError.
\* Between the braces a ``` is text of a string value.
JSONparse(jsonString) ==
    LET n == Len(jsonString)
        mid == SubSeq(jsonString, 2, n - 1)
        vals == SelectSeq(mid, LAMBDA t : t.k = "value")
        wellFormed ==
            /\ n >= 2
            /\ jsonString[1].k = "lbrace"
            /\ jsonString[n].k = "rbrace"
            /\ \A i \in 1..Len(mid) : mid[i].k \in {"value", "fence"}
            /\ Len(vals) <= 1
            /\ Len(vals) = 0 => mid = <<>>
    IN IF ~wellFormed THEN [ok |-> FALSE, value |-> EmptyExtraction]
       ELSE [ok |-> TRUE,
             value |-> IF vals = <<>> THEN EmptyExtraction ELSE vals[1].v]

\* response.match(/```json\s*([\s\S]*?)\s*```/) when jsonOnly, else
\* response.match(/```\s*([\s\S]*?)\s*```/): the leftmost opening that has a
\* ``` after it, and the text up to the nearest one.  ```json opens the second
\* pattern too, its "json" then being text of the capture.
match(response, jsonOnly) ==
    LET opens(i) == IF jsonOnly THEN response[i].k = "fenceJson" ELSE IsFence(response[i])
        starts == {i \in 1..Len(response) :
                      opens(i) /\ \E j \in (i + 1)..Len(response) : IsFence(response[j])}
    IN IF starts = {} THEN [found |-> FALSE, capture |-> <<>>]
       ELSE LET i == CHOOSE a \in starts : \A b \in starts : a <= b
                j == CHOOSE a \in (i + 1)..Len(response) :
                        /\ IsFence(response[a])
                        /\ \A b \in (i + 1)..(a - 1) : ~IsFence(response[b])
            IN [found |-> TRUE,
                capture |-> (IF ~jsonOnly /\ response[i].k = "fenceJson"
                             THEN <<Tk("prose")>> ELSE <<>>)
                            \o SubSeq(response, i + 1, j - 1)]

\* parseClaudeResponse(response, context): the parsed object with chunkIndex
\* added, or (ok = FALSE) `throw new Error('Failed to parse Claude response')`
parseClaudeResponse(response, chunkIndex) ==
    LET m1 == match(response, TRUE)
        m2 == match(response, FALSE)
        jsonString == IF m1.found THEN m1.capture
                      ELSE IF m2.found THEN m2.capture ELSE response
        parsed == JSONparse(jsonString)
    IN [ok |-> parsed.ok, value |-> parsed.value,
        chunkIndex |-> IF parsed.ok THEN chunkIndex ELSE 0]

(* --------------------- parseClaudeResponse on its own ------------------- *)
\* the longest response text handed to parseClaudeResponse directly
MaxRespLen == 5

ResponsePieces ==
    {Tk("fenceJson"), Tk("fence"), Tk("lbrace"), Tk("rbrace"), Tk("prose"),
     ValueTk(FullExtraction(1)), ValueTk(UntypedExtraction(1))}

ResponseTexts == UNION {[1..n -> ResponsePieces] : n \in 0..MaxRespLen}

NotParsed == [done |-> FALSE, ok |-> FALSE, value |-> EmptyExtraction, chunkIndex |-> 0]

InitParse ==
    /\ ExportIdle
    /\ groupIn = <<>>
    /\ groupOut = NotCalled
    /\ splitIn = [content |-> <<>>, maxChunkSize |-> 1]
    /\ splitOut = NotCalled
    /\ parseIn \in ResponseTexts
    /\ parseOut = NotParsed
    /\ optPc = "idle"
    /\ optOptions = DefaultOptions
    /\ claudeInflight = {}
    /\ serviceLog = <<>>
    /\ processedChunks = <<>>
    /\ outputFiles = <<>>

\* parseClaudeResponse(parseIn, {chunkIndex: 1}) is called
ParseClaudeResponse ==
    /\ ~parseOut.done
    /\ LET r == parseClaudeResponse(parseIn, 1)
       IN parseOut' = [done |-> TRUE, ok |-> r.ok, value |-> r.value,
                       chunkIndex |-> r.chunkIndex]
    /\ UNCHANGED <<exportVars, pathVars, groupIn, groupOut, splitIn, splitOut, parseIn, optPc,
                   optOptions, claudeInflight, serviceLog, processedChunks, outputFiles>>

SpecParse == InitParse /\ [][ParseClaudeResponse]_vars

\* the text is nothing but prose
OnlyProse(text) == \A i \in 1..Len(text) : text[i].k = "prose"

\* C20: parseClaudeResponse returns the JSON payload of a response whether the
\* payload is wrapped in a fenced code block (```json or ```, prose around it
\* or not) or is the whole response, and it throws for every response whose
\* payload is no valid JSON or is not of the expected extraction shape.
C20_ParsesFencedOrBare ==
    parseOut.done =>
        /\ \A i, j \in 1..Len(parseIn) :
              LET payload == JSONparse(SubSeq(parseIn, i + 1, j - 1))
              IN (/\ i < j
                  /\ IsFence(parseIn[i]) /\ parseIn[j].k = "fence"
                  /\ OnlyProse(SubSeq(parseIn, 1, i - 1))
                  /\ OnlyProse(SubSeq(parseIn, j + 1, Len(parseIn)))
                  /\ payload.ok /\ ExpectedShape(payload.value))
                 => parseOut.ok /\ parseOut.value = payload.value
        /\ (JSONparse(parseIn).ok /\ ExpectedShape(JSONparse(parseIn).value))
              => parseOut.ok /\ parseOut.value = JSONparse(parseIn).value
        /\ parseOut.ok => ExpectedShape(parseOut.value)

(* ----------------------------- optimizeForRAG --------------------------- *)
\* the longest export text handed to optimizeForRAG
MaxOptLen == 3

OptTexts == {t \in DocTexts : Len(t) <= MaxOptLen}

\* a request sent to the service, or an answer received from it
Event(ev, what, index, failed) ==
    [ev |-> ev, what |-> what, index |-> index, failed |-> failed]

\* What the service may answer to the request for chunk i: the extraction in a
\* ```json block, the object {} bare, an extraction of the wrong shape in a
\* ``` block, text that is no JSON, or an error of the call
ChunkResponses(i) ==
    {[status |-> "ok",
      text |-> <<Tk("fenceJson")>> \o stringify(FullExtraction(i), FALSE) \o <<Tk("fence")>>],
     [status |-> "ok", text |-> <<Tk("lbrace"), Tk("rbrace")>>],
     [status |-> "ok",
      text |-> <<Tk("fence")>> \o stringify(UntypedExtraction(i), FALSE) \o <<Tk("fence")>>],
     [status |-> "ok", text |-> <<Tk("prose")>>],
     [status |-> "error", text |-> <<>>]}

\* the chunk requests sent before any answer: every chunk at once
requestsAtStart_All(n) == 1..n

\* the chunk requests sent before any answer: the loop's first pass
requestsAtStart(n) == {1}

\* the chunk requests sent once chunk i of n is answered and parsed
nextRequests(i, n) == IF i < n THEN {i + 1} ELSE {}

\* processChunkWithClaude returning an empty extraction where it throws
processChunkWithClaude_Swallows(resp, chunkIndex) ==
    IF resp.status = "ok" /\ parseClaudeResponse(resp.text, chunkIndex).ok
    THEN parseClaudeResponse(resp.text, chunkIndex)
    ELSE [ok |-> TRUE, value |-> EmptyExtraction, chunkIndex |-> chunkIndex]

\* processChunkWithClaude(chunk, apiKey, model, context) given the answer:
\* the parsed extraction, or (ok = FALSE) the error rethrown
processChunkWithClaude(resp, chunkIndex) ==
    IF resp.status # "ok"
    THEN [ok |-> FALSE, value |-> EmptyExtraction, chunkIndex |-> 0]
    ELSE parseClaudeResponse(resp.text, chunkIndex)

\* Array.from(set) keeping every element added
ArrayFromSet_KeepsAll(added) == added

\* Array.from(set) of a Set the elements were added to in this order: each
\* distinct element once, where it was first added
ArrayFromSet(added) ==
    LET firsts == SelectSeq([i \in 1..Len(added) |-> i],
                            LAMBDA i : \A j \in 1..(i - 1) : added[j] # added[i])
    IN [k \in 1..Len(firsts) |-> added[firsts[k]]]

\* processedChunks.flatMap((chunk) => chunk[field] || [])
flatMap(chunks, field) == Flatten([i \in 1..Len(chunks) |-> chunks[i].value[field]])

\* a saved artifact
File(name, topics, participants, items, placeholder) ==
    [name |-> name, topics |-> topics, participants |-> participants,
     items |-> items, placeholder |-> placeholder]

\* generateSummary rethrowing the error of its call
generateSummary_Rethrows(chunks, answered) ==
    [threw |-> ~answered, content |-> File("summary", <<>>, <<>>, <<>>, TRUE)]

\* generateSummary(processedChunks, metadata, apiKey, model) given whether its
\* call was answered: the summary text, or the placeholder
generateSummary(chunks, answered) ==
    [threw |-> FALSE,
     content |-> IF answered
                 THEN File("summary", ArrayFromSet(flatMap(chunks, "topics")),
                           ArrayFromSet(flatMap(chunks, "participants")), <<>>, FALSE)
                 ELSE File("summary", <<>>, <<>>, <<>>, TRUE)]

\* generateStructuredOutput(processedChunks, metadata); threw: the TypeError
\* of tech.type.toUpperCase() on a technical detail without type
generateStructuredOutput(chunks) ==
    LET allTopics == ArrayFromSet(flatMap(chunks, "topics"))
        tech == flatMap(chunks, "technicalDetails")
    IN [threw |-> \E i \in 1..Len(tech) : ~tech[i].typed,
        main |-> File("rag_structured", allTopics, <<>>,
                      flatMap(chunks, "contextSummaries") \o tech, FALSE),
        topics |-> File("topics", allTopics, <<>>, <<>>, FALSE),
        decisions |-> File("decisions", <<>>, <<>>, flatMap(chunks, "decisions"), FALSE),
        actionItems |-> File("action_items", <<>>, <<>>,
                             flatMap(chunks, "actionItems"), FALSE)]

\* the id of a record numbered within its own list of entries
recordId_PerList(prefix, chunks, k) == [prefix |-> prefix, n |-> k - 1]

\* `${prefix}_${chunks.length}`: the id of the record pushed next, k-th of its
\* list, when `chunks` holds the records pushed so far
recordId(prefix, chunks, k) == [prefix |-> prefix, n |-> Len(chunks)]

\* entries.forEach((e) => chunks.push({id, type, ...})) from the k-th entry on
RECURSIVE pushEach(_, _, _, _)
pushEach(chunks, entries, k, prefix) ==
    IF k > Len(entries) THEN chunks
    ELSE pushEach(Append(chunks, [id |-> recordId(prefix, chunks, k),
                                  type |-> entries[k].kind, entry |-> entries[k]]),
                  entries, k + 1, prefix)

\* the records generateSemanticChunks has pushed after the first n chunks
RECURSIVE semanticRecords(_, _)
semanticRecords(processed, n) ==
    IF n = 0 THEN <<>>
    ELSE LET v == processed[n].value
             ctx == pushEach(semanticRecords(processed, n - 1), v.contextSummaries, 1, "ctx")
             tech == pushEach(ctx, v.technicalDetails, 1, "tech")
         IN pushEach(tech, v.decisions, 1, "decision")

\* generateSemanticChunks(processedChunks, metadata): one line per record
generateSemanticChunks(chunks) ==
    LET records == semanticRecords(chunks, Len(chunks))
    IN File("rag_semantic", <<>>, <<>>,
            [i \in 1..Len(records) |-> records[i].entry], FALSE)

\* optimizeForRAG after the summary: the artifacts rendered and saved one
\* after the other behind those saved already
renderOutputs(chunks, saved, options) ==
    IF options.outputFormat = "structured"
    THEN LET structured == generateStructuredOutput(chunks)
         IN IF structured.threw THEN [threw |-> TRUE, files |-> saved]
            ELSE [threw |-> FALSE,
                  files |-> saved \o <<structured.main>>
                     \o (IF options.includeTopics THEN <<structured.topics>> ELSE <<>>)
                     \o (IF options.includeDecisions THEN <<structured.decisions>> ELSE <<>>)
                     \o (IF options.includeActionItems
                         THEN <<structured.actionItems>> ELSE <<>>)]
    ELSE [threw |-> FALSE, files |-> saved \o <<generateSemanticChunks(chunks)>>]

\* the options a call may come with; the three include flags only count for
\* the structured format
OptionSets(includeSummary) ==
    {o \in [outputFormat : {"structured", "semantic"}, includeTopics : BOOLEAN,
            includeDecisions : BOOLEAN, includeActionItems : BOOLEAN,
            includeSummary : {includeSummary}] :
        o.outputFormat = "semantic" =>
            o.includeTopics /\ o.includeDecisions /\ o.includeActionItems}

InitOpt ==
    /\ ExportIdle
    /\ groupIn = <<>>
    /\ groupOut = NotCalled
    /\ splitIn \in [content : OptTexts, maxChunkSize : 1..MaxChunkSize]
    /\ splitOut = NotCalled
    /\ parseIn = <<>>
    /\ parseOut = [done |-> FALSE]
    /\ optPc = "idle"
    /\ optOptions = DefaultOptions
    /\ claudeInflight = {}
    /\ serviceLog = <<>>
    /\ processedChunks = <<>>
    /\ outputFiles = <<>>

\* optimizeForRAG up to its first request: the file read and split
StartOptimize ==
    /\ optPc = "idle"
    /\ LET chunks == splitIntoChunks(splitIn.content, splitIn.maxChunkSize)
           first == requestsAtStart(Len(chunks))
       IN /\ splitOut' = [done |-> TRUE, parts |-> chunks]
          /\ claudeInflight' = first
          /\ serviceLog' = [k \in 1..Cardinality(first) |->
                                Event("request", "chunk", k, FALSE)]
    /\ optPc' = "awaitChunk"
    /\ UNCHANGED <<exportVars, pathVars, groupIn, groupOut, splitIn, parseIn, parseOut,
                   optOptions, processedChunks, outputFiles>>

\* the answer for the awaited chunk is an error or cannot be parsed:
\* processChunkWithClaude throws and optimizeForRAG with it
ReceiveChunkFailure ==
    /\ optPc = "awaitChunk"
    /\ LET i == Len(processedChunks) + 1
       IN /\ i \in claudeInflight
          /\ \E resp \in ChunkResponses(i) :
                /\ ~processChunkWithClaude(resp, i).ok
                /\ serviceLog' = Append(serviceLog, Event("response", "chunk", i, TRUE))
          /\ claudeInflight' = claudeInflight \ {i}
    /\ optPc' = "chunkFailed"
    /\ UNCHANGED <<exportVars, pathVars, groupIn, groupOut, splitIn, splitOut, parseIn, parseOut,
                   optOptions, processedChunks, outputFiles>>

\* the answer for the awaited chunk was parsed and more chunks are left
ReceiveChunkAndContinue ==
    /\ optPc = "awaitChunk"
    /\ LET i == Len(processedChunks) + 1
           n == Len(splitOut.parts)
       IN /\ i \in claudeInflight
          /\ i < n
          /\ \E resp \in ChunkResponses(i) :
                LET processed == processChunkWithClaude(resp, i)
                    failed == resp.status # "ok" \/ ~parseClaudeResponse(resp.text, i).ok
                IN /\ processed.ok
                   /\ processedChunks' = Append(processedChunks, processed)
                   /\ serviceLog' =
                        Append(serviceLog, Event("response", "chunk", i, failed))
                        \o [k \in 1..Cardinality(nextRequests(i, n) \ claudeInflight) |->
                                Event("request", "chunk", i + k, FALSE)]
          /\ claudeInflight' = (claudeInflight \ {i}) \cup nextRequests(i, n)
    /\ UNCHANGED <<exportVars, pathVars, groupIn, groupOut, splitIn, splitOut, parseIn, parseOut,
                   optPc, optOptions, outputFiles>>

\* the answer for the last chunk was parsed: with includeSummary the summary
\* is requested, without it the outputs are rendered and saved
ReceiveLastChunk ==
    /\ optPc = "awaitChunk"
    /\ LET i == Len(processedChunks) + 1
           n == Len(splitOut.parts)
       IN /\ i \in claudeInflight
          /\ i = n
          /\ claudeInflight' = claudeInflight \ {i}
          /\ \E resp \in ChunkResponses(i), includeSummary \in BOOLEAN :
                LET processed == processChunkWithClaude(resp, i)
                    failed == resp.status # "ok" \/ ~parseClaudeResponse(resp.text, i).ok
                    answer == Event("response", "chunk", i, failed)
                IN /\ processed.ok
                   /\ processedChunks' = Append(processedChunks, processed)
                   /\ IF includeSummary
                      THEN /\ optOptions' = [DefaultOptions EXCEPT !.includeSummary = TRUE]
                           /\ serviceLog' = serviceLog
                                \o <<answer, Event("request", "summary", 0, FALSE)>>
                           /\ optPc' = "awaitSummary"
                           /\ outputFiles' = outputFiles
                      ELSE \E options \in OptionSets(FALSE) :
                              LET out == renderOutputs(processedChunks', outputFiles, options)
                              IN /\ optOptions' = options
                                 /\ serviceLog' = Append(serviceLog, answer)
                                 /\ optPc' = IF out.threw THEN "renderFailed" ELSE "returned"
                                 /\ outputFiles' = out.files
    /\ UNCHANGED <<exportVars, pathVars, groupIn, groupOut, splitIn, splitOut, parseIn, parseOut>>

\* the summary call ended, answered or not: the summary (or its placeholder)
\* is saved, then the outputs are rendered and saved
ReceiveSummary ==
    /\ optPc = "awaitSummary"
    /\ \E answered \in BOOLEAN, options \in OptionSets(TRUE) :
          LET summary == generateSummary(processedChunks, answered)
              out == renderOutputs(processedChunks, <<summary.content>>, options)
          IN /\ serviceLog' = Append(serviceLog, Event("response", "summary", 0, ~answered))
             /\ optOptions' = options
             /\ IF summary.threw
                THEN optPc' = "summaryThrew" /\ outputFiles' = outputFiles
                ELSE /\ optPc' = IF out.threw THEN "renderFailed" ELSE "returned"
                     /\ outputFiles' = out.files
    /\ UNCHANGED <<exportVars, pathVars, groupIn, groupOut, splitIn, splitOut, parseIn, parseOut,
                   claudeInflight, processedChunks>>

NextOpt ==
    \/ StartOptimize
    \/ ReceiveChunkFailure
    \/ ReceiveChunkAndContinue
    \/ ReceiveLastChunk
    \/ ReceiveSummary

SpecOpt == InitOpt /\ [][NextOpt]_vars

\* the field of an extraction that holds the items of a kind
KindFields ==
    [decision |-> "decisions", action |-> "actionItems",
     context |-> "contextSummaries", technical |-> "technicalDetails"]

\* the items of one kind in a saved artifact
OfKind(items, kind) == SelectSeq(items, LAMBDA it : it.kind = kind)

\* the position in serviceLog of the answer for chunk i, 0 if there is none
AnswerAt(i) ==
    IF \E k \in 1..Len(serviceLog) :
          serviceLog[k] = Event("response", "chunk", i, FALSE)
    THEN CHOOSE k \in 1..Len(serviceLog) :
          serviceLog[k] = Event("response", "chunk", i, FALSE)
    ELSE 0

\* C16: the chunks are submitted to the service strictly one at a time and in
\* order: at most one request is in flight, the request for chunk i + 1 is
\* sent only after the answer for chunk i, the extractions are kept in chunk
\* order, and in every artifact the items of a kind stand in the order of
\* their chunks with none lost.
C16_ChunksOneAtATimeInOrder ==
    /\ Cardinality(claudeInflight) <= 1
    /\ \A k \in 1..Len(serviceLog) :
          (serviceLog[k].ev = "request" /\ serviceLog[k].what = "chunk"
           /\ serviceLog[k].index > 1)
             => /\ AnswerAt(serviceLog[k].index - 1) > 0
                /\ AnswerAt(serviceLog[k].index - 1) < k
    /\ \A i \in 1..Len(processedChunks) : processedChunks[i].chunkIndex = i
    /\ \A f \in 1..Len(outputFiles) : \A kind \in DOMAIN KindFields :
          LET got == OfKind(outputFiles[f].items, kind)
          IN /\ \A a, b \in 1..Len(got) : a < b => got[a].src <= got[b].src
             /\ got # <<>> => got = flatMap(processedChunks, KindFields[kind])

\* C16 witness: two chunks were answered with full extractions and the
\* structured outputs were saved
C16_Witness ==
    /\ optPc = "returned"
    /\ optOptions.outputFormat = "structured"
    /\ Len(processedChunks) = 2
    /\ \A i \in 1..2 : processedChunks[i].value = FullExtraction(i)
    /\ \E f \in 1..Len(outputFiles) : outputFiles[f].name = "decisions"

\* the kinds of item each artifact is rendered from
Carries ==
    [summary |-> {}, rag_structured |-> {"context", "technical"}, topics |-> {},
     decisions |-> {"decision"}, action_items |-> {"action"},
     rag_semantic |-> {"context", "technical", "decision"}]

\* the artifacts that list the topics
TopicFiles == {"summary", "rag_structured", "topics"}

\* agg holds every element of reported, each distinct one exactly once
IsSetUnion(agg, reported) ==
    /\ {agg[i] : i \in 1..Len(agg)} = {reported[i] : i \in 1..Len(reported)}
    /\ \A i, j \in 1..Len(agg) : agg[i] = agg[j] => i = j

\* in every artifact written from the extractions, the topics are the set
\* union of the chunks' topics and every list of items is the concatenation
\* of the chunks' lists, duplicates kept
TopicsUnionItemsConcatenated ==
    \A f \in 1..Len(outputFiles) :
        LET out == outputFiles[f]
        IN ~out.placeholder =>
              /\ out.name \in TopicFiles =>
                    IsSetUnion(out.topics, flatMap(processedChunks, "topics"))
              /\ \A kind \in Carries[out.name] :
                    OfKind(out.items, kind) = flatMap(processedChunks, KindFields[kind])

\* C17 as stated: the topics are the set union of the chunks' topics, each
\* distinct topic once, and all other collections (decisions, action items,
\* context summaries, technical details, participants) are plain
\* concatenations that keep duplicates.
C17_OnlyTopicsAreUnion ==
    /\ TopicsUnionItemsConcatenated
    /\ \A f \in 1..Len(outputFiles) :
          (outputFiles[f].name = "summary" /\ ~outputFiles[f].placeholder)
             => outputFiles[f].participants = flatMap(processedChunks, "participants")

\* C17 amended: the topics and the participant names are set unions over the
\* chunks (every reported one present, each distinct one exactly once);
\* decisions, action items, context summaries and technical details are plain
\* concatenations that keep duplicates.
C17_TopicsAndParticipantsAreUnions ==
    /\ TopicsUnionItemsConcatenated
    /\ \A f \in 1..Len(outputFiles) :
          (outputFiles[f].name = "summary" /\ ~outputFiles[f].placeholder)
             => IsSetUnion(outputFiles[f].participants,
                           flatMap(processedChunks, "participants"))

\* C17 witness: two chunks reported a common topic, a common participant and
\* the same decision twice each; the summary and the decisions were written
\* with three topics, three participants and four decisions
C17_Witness ==
    /\ optPc = "returned"
    /\ Len(processedChunks) = 2
    /\ \A i \in 1..2 : processedChunks[i].value = FullExtraction(i)
    /\ \E f, g \in 1..Len(outputFiles) :
          /\ outputFiles[f].name = "summary"
          /\ Len(outputFiles[f].topics) = 3
          /\ Len(outputFiles[f].participants) = 3
          /\ outputFiles[g].name = "decisions"
          /\ Len(outputFiles[g].items) = 4

\* the answer for some chunk was an error of the call, or could not be parsed
SomeChunkFailed ==
    \E k \in 1..Len(serviceLog) :
        /\ serviceLog[k].ev = "response"
        /\ serviceLog[k].what = "chunk"
        /\ serviceLog[k].failed

\* C18: when the extraction of any chunk fails (the call errors or the answer
\* cannot be parsed) the run aborts there and no artifact is written: the
\* failed answer is the last exchange with the service, and an artifact is
\* only ever written after every chunk was answered and parsed.
C18_ChunkFailureAbortsWithoutArtifacts ==
    /\ SomeChunkFailed =>
          /\ optPc = "chunkFailed"
          /\ outputFiles = <<>>
          /\ claudeInflight = {}
          /\ serviceLog[Len(serviceLog)].failed
    /\ outputFiles # <<>> =>
          /\ splitOut.done
          /\ Len(processedChunks) = Len(splitOut.parts)

\* C18 witness: the first chunk was extracted, the answer for the second one
\* failed, and the run aborted
C18_Witness ==
    /\ optPc = "chunkFailed"
    /\ Len(processedChunks) = 1
    /\ processedChunks[1].value = FullExtraction(1)
    /\ serviceLog[Len(serviceLog)] = Event("response", "chunk", 2, TRUE)

\* the summary call failed
SummaryFailed ==
    \E k \in 1..Len(serviceLog) :
        serviceLog[k] = Event("response", "summary", 0, TRUE)

\* the artifacts besides the summary that the call asked for
Requested(options) ==
    IF options.outputFormat = "structured"
    THEN {"rag_structured"}
         \cup (IF options.includeTopics THEN {"topics"} ELSE {})
         \cup (IF options.includeDecisions THEN {"decisions"} ELSE {})
         \cup (IF options.includeActionItems THEN {"action_items"} ELSE {})
    ELSE {"rag_semantic"}

SemanticWritten ==
    \E f \in 1..Len(outputFiles) : outputFiles[f].name = "rag_semantic"

\* C21: generateSemanticChunks emits exactly one record per context summary,
\* technical detail and decision of the processed chunks (as many records as
\* there are such entries, each entry's own), every record of chunk i stands
\* before every record of chunk j for i < j, and no two records share an id.
C21_OneRecordPerEntryUniqueIds ==
    SemanticWritten =>
        LET records == semanticRecords(processedChunks, Len(processedChunks))
            written == (CHOOSE f \in 1..Len(outputFiles) :
                            outputFiles[f].name = "rag_semantic")
            count(field) == Len(flatMap(processedChunks, field))
        IN /\ Len(outputFiles[written].items) = Len(records)
           /\ Len(records) = count("contextSummaries") + count("technicalDetails")
                                + count("decisions")
           /\ \A kind \in {"context", "technical", "decision"} :
                 SelectSeq([i \in 1..Len(records) |-> records[i].entry],
                           LAMBDA e : e.kind = kind)
                    = flatMap(processedChunks, KindFields[kind])
           /\ \A a, b \in 1..Len(records) :
                 /\ a < b => records[a].entry.src <= records[b].entry.src
                 /\ records[a].id = records[b].id => a = b

\* C21 witness: two chunks with a context summary, a technical detail and two
\* equal decisions each were written as eight records
C21_Witness ==
    /\ SemanticWritten
    /\ Len(processedChunks) = 2
    /\ \A i \in 1..2 : processedChunks[i].value = FullExtraction(i)
    /\ Len(semanticRecords(processedChunks, 2)) = 8

\* the error messages of a failed request
FetchErrors == {"not found", "permission denied", "graph api error", "failed to fetch"}

\* C22: a remote error during a fetch ends the fetch at once with the error
\* of its status: the request is not sent again and no further page is
\* requested, the run exits with status 1, and nothing of the pages received
\* before is returned or written to the export.
C22_RemoteErrorFailsFetch ==
    /\ [][(pc = "awaitPage" /\ inflight.kind = "error" /\ pc' # pc) =>
            /\ pc' = "exit"
            /\ inflight' = NoResponse
            /\ pageCount' = pageCount
            /\ pagesLog' = pagesLog
            /\ messages' = <<>>
            /\ file' = file
            /\ outcome'.exit = 1
            /\ outcome'.what \in FetchErrors
            /\ inflight.status = 400 => outcome'.what = "graph api error"]_vars
    /\ []((pc = "exit" /\ outcome.what \in FetchErrors) =>
            /\ messages = <<>>
            /\ file = fileBefore
            /\ outcome.exit = 1
            /\ outcome.appended = 0)

\* C22 witness: the second page request of an incremental run failed after a
\* first page of two messages; the run is exiting with the export as it was
C22_Witness ==
    /\ pc = "exit"
    /\ outcome.what = "permission denied"
    /\ opts.isIncremental
    /\ pageCount = 2
    /\ Len(pagesLog) = 1
    /\ Len(pagesLog[1]) = 2
    /\ Exists(file)

(* --------------------- runs with a failing file system ------------------ *)
\* fs.writeFileSync(outputPath, content) that throws: the file as the failed
\* call leaves it.  The call opens the path for writing, which empties it,
\* and then writes; it fails either at the open (the file is as it was) or
\* later (the file holds what was written until then)
writeFileSyncFailures(fs, content) ==
    {fs} \cup {SubSeq(content, 1, k) : k \in 0..(Len(content) - 1)}

InitFail ==
    /\ Init
    /\ filterMode \in {"applies", "rejects"}
    /\ config.includeMetadata

\* the export file is removed while the incremental run is fetching
RemoveFile ==
    /\ pc = "awaitPage"
    /\ opts.isIncremental
    /\ Exists(file)
    /\ file' = NoFile
    /\ UNCHANGED <<now, remote, filterMode, config, pc, opts, pagesLog,
                   pageCount, inflight, messages, outcome, fileBefore, runs>>
    /\ UNCHANGED otherVars

\* the last page of an incremental run arrived with new messages and the
\* writeFileSync of appendMessagesToExport throws: the command exits with 1
ReceivePageAndWriteFails ==
    /\ pc = "awaitPage"
    /\ inflight.kind = "page"
    /\ opts.isIncremental
    /\ Exists(file)
    /\ LET batch == inflight.value
           fetchedCount == Len(Flatten(pagesLog)) + Len(batch)
           result == fetchReturn(Flatten(pagesLog) \o batch, opts.maxMessages)
       IN /\ reachedMax(opts.maxMessages, fetchedCount) \/ nextUrl(inflight) = NoUrl
          /\ result # <<>>
          /\ pagesLog' = Append(pagesLog, batch)
          /\ messages' = result
          /\ opts' = [opts EXCEPT !.includeMetadata = config.includeMetadata,
                                  !.groupByDate = config.groupByDate]
          /\ file' \in writeFileSyncFailures(file,
                          patchAndAppend(file, result, config.includeMetadata,
                                         config.groupByDate, now))
    /\ outcome' = Outcome("append failed", 1, 0)
    /\ pc' = "exit"
    /\ inflight' = NoResponse
    /\ UNCHANGED <<now, remote, filterMode, config, pageCount, fileBefore, runs>>
    /\ UNCHANGED otherVars

NextFail ==
    \/ Next
    \/ RemoveFile
    \/ ReceivePageAndWriteFails

SpecFail == InitFail /\ [][NextFail]_vars

\* C23: whatever step of an incremental run fails (the fetch, the read of an
\* export that is gone, the write), the run leaves in the file either the
\* complete rewrite (header patched and new messages appended) or exactly the
\* content it found there: a failed run leaves the file as it was.
C23_IncrementalAllOrNothing ==
    [][(pc # "exit" /\ pc' = "exit" /\ opts'.isIncremental) =>
         \/ file' = file
         \/ /\ outcome'.exit = 0
            /\ messages' # <<>>
            /\ file' = patchAndAppend(file, messages', config.includeMetadata,
                                      config.groupByDate, now)]_vars

(* ----------------------------- the output path -------------------------- *)
\* how many runs resolve the output path of the same conversation
MaxPathRuns == 3
\* the characters of an id that go into the file name (substring(0, 8))
IdPrefixLen == 2

\* /-+/g -> '-': a run of dashes becomes one dash
RECURSIVE collapseDashes(_)
collapseDashes(str) ==
    IF Len(str) < 2 THEN str
    ELSE IF str[1] = "-" /\ str[2] = "-" THEN collapseDashes(Tail(str))
    ELSE <<str[1]>> \o collapseDashes(Tail(str))

\* sanitizeForFilename(str): invalid characters and white space become
\* dashes, runs of dashes one dash, a leading and a trailing dash are dropped
sanitizeForFilename(str) ==
    LET dashed == [i \in 1..Len(str) |-> IF str[i] \in {":", " "} THEN "-" ELSE str[i]]
        single == collapseDashes(dashed)
        noLead == IF single # <<>> /\ Head(single) = "-" THEN Tail(single) ELSE single
    IN IF noLead # <<>> /\ noLead[Len(noLead)] = "-"
       THEN SubSeq(noLead, 1, Len(noLead) - 1) ELSE noLead

\* id.substring(0, 8)
substring(id) == IF Len(id) <= IdPrefixLen THEN id ELSE SubSeq(id, 1, IdPrefixLen)

\* Step 2 of the generate action: sourceName after the metadata lookup, "" for
\* null; a failed lookup leaves metadata {} (chat) or sourceName null (channel)
lookupSourceName(source, lookupOk) == IF lookupOk THEN source.name ELSE <<>>

\* Step 3 of the generate action without --output: the file name
resolveOutputPath(source, sourceName) ==
    IF sourceName # <<>>
    THEN [prefix |-> IF source.isChannel THEN "channel" ELSE "chat",
          stem |-> sanitizeForFilename(sourceName)]
    ELSE IF source.isChannel
    THEN [prefix |-> "channel",
          stem |-> sanitizeForFilename(substring(source.teamId)) \o <<"-">>
                   \o sanitizeForFilename(substring(source.channelId))]
    ELSE [prefix |-> "chat", stem |-> sanitizeForFilename(substring(source.chatId))]

\* the names a conversation may have on the remote (<<>>: it has none)
SourceNames == {<<>>, <<"a">>, <<"a", " ", "b">>, <<":", "a", " ">>}
SourceIds == {<<"a", ":", "b">>, <<"b", "a", "a">>}

\* the conversations a run may be pointed at: a chat, or a channel of a team
PathSources ==
    {[NoSource EXCEPT !.chatId = id, !.name = nm] : id \in SourceIds, nm \in SourceNames}
    \cup {[NoSource EXCEPT !.isChannel = TRUE, !.teamId = <<"b", "a", "a">>,
                           !.channelId = id, !.name = nm] :
            id \in SourceIds, nm \in SourceNames}

InitPath ==
    /\ now = 1
    /\ remote = <<>>
    /\ filterMode = "applies"
    /\ config = [includeMetadata |-> TRUE, groupByDate |-> TRUE]
    /\ file = NoFile
    /\ pc = "idle"
    /\ opts = NoOpts
    /\ pagesLog = <<>>
    /\ pageCount = 0
    /\ inflight = NoResponse
    /\ messages = <<>>
    /\ outcome = Outcome("none", 0, 0)
    /\ fileBefore = NoFile
    /\ runs = 0
    /\ groupIn = <<>>
    /\ groupOut = NotCalled
    /\ OptimizerIdle
    /\ pathSource \in PathSources
    /\ disk = {}
    /\ pathRuns = <<>>

\* one run of `generate` on the conversation, as far as the output path goes:
\* the name is looked up (the lookup may fail), the path is resolved, an
\* export is looked for at that path, and the run leaves an export there
ResolvePathAndExport ==
    /\ Len(pathRuns) < MaxPathRuns
    /\ \E lookupOk \in BOOLEAN :
          LET outputPath ==
                resolveOutputPath(pathSource, lookupSourceName(pathSource, lookupOk))
          IN /\ pathRuns' = Append(pathRuns, [path |-> outputPath,
                                              found |-> outputPath \in disk,
                                              lookupOk |-> lookupOk])
             /\ disk' = disk \cup {outputPath}
    /\ UNCHANGED <<exportVars, groupIn, groupOut, optVars, pathSource>>

SpecPath == InitPath /\ [][ResolvePathAndExport]_vars

\* C24: for a fixed conversation and no --output, every run resolves the same
\* output path, so that every run after the first finds the export the
\* earlier run wrote, whether the name lookup of a run succeeds or fails.
C24_SamePathEveryRun ==
    \A i \in 1..Len(pathRuns) :
        /\ pathRuns[i].path = pathRuns[1].path
        /\ i > 1 => pathRuns[i].found

PatchedFields == {"total", "lastRun", "lastRunLocal"}

\* C26: a successful append changes, in the header, only the Total Messages,
\* Last Run and Last Run (Local) lines: the title, Topic, Chat Type, Source
\* and Created lines and the separator stand where they stood, unchanged.
C26_AppendKeepsOtherHeaderFields ==
    (pc = "exit" /\ outcome.what = "appended") =>
        LET old == HeaderLines(fileBefore)
            new == HeaderLines(file)
        IN /\ Len(new) = Len(old)
           /\ \A k \in 1..Len(old) :
                 /\ new[k].t = old[k].t
                 /\ old[k].t \notin PatchedFields => new[k] = old[k]

\* C26 witness: an append at a later instant to the export of a chat whose
\* header holds Topic, Chat Type, Source, Created and the separator
C26_Witness ==
    /\ pc = "exit" /\ outcome.what = "appended"
    /\ \A t \in {"topic", "chatType", "source", "created", "sep"} :
          FirstIndex(HeaderLines(fileBefore), t) # 0
    /\ HasInstantLastRun(fileBefore)
    /\ DateParse(LastRunOf(fileBefore)) < now
    /\ LastRunOf(file) # LastRunOf(fileBefore)

(* ----------------------- the paginated fetch on its own ------------------ *)
\* the conversations a fetch may be pointed at: up to MaxMsgs messages, oldest
\* first, created at instants of the clock
FetchRemotes ==
    UNION {{[i \in 1..n |-> [id |-> i, createdDateTime |-> f[i]]] :
                f \in {g \in [1..n -> 1..MaxTime] :
                          \A i, j \in 1..n : i < j => g[i] <= g[j]}} :
            n \in 0..MaxMsgs}

\* fetchChatMessages / fetchChannelMessages before the call: the arguments
\* maxMessages and sinceDate are drawn here
InitFetch ==
    /\ now = MaxTime
    /\ remote \in FetchRemotes
    /\ filterMode \in {"applies", "ignores", "rejects"}
    /\ config = [includeMetadata |-> TRUE, groupByDate |-> TRUE]
    /\ file = NoFile
    /\ pc = "idle"
    /\ \E cap \in 0..MaxCap, since \in {NullDate} \cup 1..MaxTime :
          opts = [NoOpts EXCEPT !.maxMessages = cap, !.sinceDate = since]
    /\ pagesLog = <<>>
    /\ pageCount = 0
    /\ inflight = NoResponse
    /\ messages = <<>>
    /\ outcome = Outcome("none", 0, 0)
    /\ fileBefore = NoFile
    /\ runs = 0
    /\ PathIdle
    /\ groupIn = <<>>
    /\ groupOut = NotCalled
    /\ OptimizerIdle

\* the function is called: the url is built and the first page requested
FetchCall ==
    /\ pc = "idle"
    /\ runs = 0
    /\ runs' = 1
    /\ pc' = "awaitPage"
    /\ pageCount' = 1
    /\ inflight' \in Responses(Len(remote) + 1, opts.sinceDate)
    /\ outcome' = Outcome("running", 0, 0)
    /\ UNCHANGED <<now, remote, filterMode, config, file, opts, pagesLog,
                   messages, fileBefore>>
    /\ UNCHANGED otherVars

\* a page arrived and the loop ends (the cap is reached or the page carries no
\* continuation link): the function returns
FetchReturn ==
    /\ pc = "awaitPage"
    /\ inflight.kind = "page"
    /\ LET batch == inflight.value
           fetchedCount == Len(Flatten(pagesLog)) + Len(batch)
       IN /\ reachedMax(opts.maxMessages, fetchedCount) \/ nextUrl(inflight) = NoUrl
          /\ pagesLog' = Append(pagesLog, batch)
          /\ messages' = fetchReturn(Flatten(pagesLog) \o batch, opts.maxMessages)
    /\ pc' = "exit"
    /\ inflight' = NoResponse
    /\ outcome' = Outcome("returned", 0, 0)
    /\ UNCHANGED <<now, remote, filterMode, config, file, opts, pageCount,
                   fileBefore, runs>>
    /\ UNCHANGED otherVars

\* the awaited response is taken by the loop
FetchReceive ==
    \/ ReceiveError
    \/ ReceivePageAndContinue
    \/ FetchReturn

NextFetch ==
    \/ FetchCall
    \/ FetchReceive

\* every request is answered in the end (by a page or by an error) and the
\* loop then goes on from its await
SpecFetch == InitFetch /\ [][NextFetch]_vars /\ WF_vars(FetchReceive)

\* C27: pagination is sequential and ends: a page is requested only when the
\* response to the page before has arrived and carried a continuation link,
\* so at most one request is out; no page is requested twice (no message is
\* received in two pages and there are never more requests than the listing
\* has pages); and every fetch that was started comes to its end.
C27_PaginationSequentialAndTerminates ==
    /\ [](/\ pageCount <= Len(pagesLog) + 1
          /\ pc = "awaitPage" => pageCount = Len(pagesLog) + 1
          /\ pageCount <= (Len(remote) \div PageSize) + 1
          /\ \A i, j \in 1..Len(pagesLog) :
                \A a \in 1..Len(pagesLog[i]), b \in 1..Len(pagesLog[j]) :
                    pagesLog[i][a].id = pagesLog[j][b].id => (i = j /\ a = b))
    /\ [][(pc = "awaitPage" /\ pageCount' # pageCount) =>
             /\ inflight.kind = "page"
             /\ inflight.nextLink # NoUrl
             /\ pagesLog' = Append(pagesLog, inflight.value)
             /\ pageCount' = pageCount + 1
             /\ pc' = "awaitPage"]_vars
    /\ (pc = "awaitPage") ~> (pc = "exit")

\* C27 witness: a fetch of three messages ended after two pages, the second
\* one without continuation link
C27_Witness ==
    /\ pc = "exit" /\ outcome.what = "returned"
    /\ opts.maxMessages = 0
    /\ pageCount = 2
    /\ Len(pagesLog) = 2
    /\ Len(pagesLog[1]) = PageSize
    /\ Len(pagesLog[2]) = 1

(* --------------------- runs without --max-messages ---------------------- *)
\* `generate` is started without --max-messages
StartRunUncapped == StartRunWith(0)

NextSync ==
    \/ Tick
    \/ PostMessage
    \/ StartRunUncapped
    \/ ReceiveError
    \/ ReceivePageAndContinue
    \/ ReceivePageAndFinish
    \/ Exit

SpecSync == Init /\ [][NextSync]_vars

\* the message has an entry in the document
Rendered(doc, m) ==
    \E i \in 1..Len(Entries(BodyOf(doc))) : Entries(BodyOf(doc))[i].id = m.id

\* C28: with no cap in any run, incremental sync skips no message for good:
\* when an incremental run has completed, every message that was on the
\* remote when it fetched is in the document; in particular every message
\* created before the instant the previous run stamped as Last Run, also one
\* that was posted after that run's fetch.
C28_NoMessageSkipped ==
    (pc = "exit" /\ opts.isIncremental /\ outcome.what \in {"appended", "up to date"}) =>
        \A i \in 1..Len(remote) :
            remote[i].createdDateTime < opts.sinceDate => Rendered(file, remote[i])

\* C29: after any sequence of runs against one destination (a first-run write
\* followed by incremental appends) no remote message, identified by its id,
\* is rendered more than once in the document.
C29_NoMessageRenderedTwice ==
    \A i, j \in 1..Len(Entries(BodyOf(file))) :
        Entries(BodyOf(file))[i].id = Entries(BodyOf(file))[j].id => i = j

\* C30: when the text holds at least one date-section marker, the chunks of
\* splitIntoChunks joined in order are exactly the text from the first marker
\* to the end: nothing of the body is dropped, duplicated or reordered, and
\* only what stands before the first marker is left out.
C30_ChunksConcatenateToBody ==
    (splitOut.done /\ matches(splitIn.content) # <<>>) =>
        Flatten(splitOut.parts) =
            SubSeq(splitIn.content, matches(splitIn.content)[1], Len(splitIn.content))

\* C30 witness: a text of five lines, a line before its first marker and a
\* section of more than one line, came out as more than one chunk
C30_Witness ==
    /\ splitOut.done
    /\ Len(splitIn.content) = 5
    /\ matches(splitIn.content) # <<>>
    /\ ~splitIn.content[1].m
    /\ ~splitIn.content[5].m
    /\ Len(splitOut.parts) > 1
    /\ Len(Flatten(splitOut.parts)) = 4

=============================================================================
